---- MODULE Spec2Model ----
(***************************************************************************)
(* Model of src/app.py: the dashboard handler and generate_plots, the      *)
(* pipeline that reads earthquakes.csv, normalizes the Date column and     *)
(* derives the eight views (plot1..plot5, plot7, plot8, map10).            *)
(*                                                                         *)
(* Units.  Magnitude is held in hundredths (6.0 is 600), Depth in          *)
(* hundredths of a km (300.01 is 30001), Latitude and Longitude in         *)
(* thousandths of a degree (33.322 is 33322).  A timestamp is the number   *)
(* of days since 1970-01-01 (the Date column of the catalogue carries no   *)
(* time of day); NaT is the out-of-band value pandas stores for a          *)
(* timestamp that did not parse.  The text of a Date cell "MM/DD/YYYY" is  *)
(* the triple <<MM, DD, YYYY>>; the empty cell is <<0, 0, 0>>.             *)
(* A view is the data handed to the renderer, not the PNG bytes.           *)
(***************************************************************************)
EXTENDS Integers, Sequences, FiniteSets, TLC

\* ------------------------------------------------------------------ bounds
MaxRows == 3
MaxRowsDepth == 2
MaxRowsAfter == 1
MaxRowsSources == 7
MaxRowsAny == 2

\* ------------------------------------------------------- program constants
TopN == 5
ShallowBelow == 7000
IntermediateUpTo == 30000
AftershockDays == 30
LatMin == 33322
LatMax == 43322
LonMin == 137369
LonMax == 147369
MagBelow == 900
NaT == -1000000

VARIABLES
    sourceAvailable,  \* whether earthquakes.csv exists
    raw,              \* the rows of earthquakes.csv, in file order
    pc,               \* position of the request
    df,               \* the DataFrame: [columns: set of names, rows: sequence]
    figs,             \* the open matplotlib figures, the current one last
    plots,            \* the dict generate_plots builds: view name -> view
    done,             \* the stages that have stored their view
    result,           \* what generate_plots returned
    response          \* what dashboard returned

vars == <<sourceAvailable, raw, pc, df, figs, plots, done, result, response>>

\* ----------------------------------------------------------------- helpers
Range(s) == {s[i] : i \in 1..Len(s)}

Last(s) == s[Len(s)]

RECURSIVE SumSeq(_)
SumSeq(s) == IF s = <<>> THEN 0 ELSE s[1] + SumSeq(Tail(s))

\* The data of a column, in row order.
Column(rows, c) == [i \in 1..Len(rows) |-> rows[i][c]]

\* df[c] = vals: adds (or overwrites) column c, vals[i] going to row i.
WithColumn(t, c, vals) ==
    [columns |-> t.columns \cup {c},
     rows |-> [i \in 1..Len(t.rows) |->
                 [k \in (DOMAIN t.rows[i]) \cup {c} |->
                    IF k = c THEN vals[i] ELSE t.rows[i][k]]]]

\* The ascending sequence of a finite set of integers.
RECURSIVE SortedSeq(_)
SortedSeq(S) ==
    IF S = {} THEN <<>>
    ELSE LET m == CHOOSE x \in S : \A y \in S : x <= y
         IN <<m>> \o SortedSeq(S \ {m})

\* -------------------------------------------------------------- timestamps
IsLeap(y) == (y % 4 = 0 /\ y % 100 # 0) \/ y % 400 = 0

DaysInMonth(m, y) ==
    IF m = 2 THEN (IF IsLeap(y) THEN 29 ELSE 28)
    ELSE IF m \in {4, 6, 9, 11} THEN 30 ELSE 31

\* Days from 1970-01-01 to the civil date y-m-d.
DaysFromCivil(y, m, d) ==
    LET yy == IF m <= 2 THEN y - 1 ELSE y
        era == yy \div 400
        yoe == yy - era * 400
        mp == (m + 9) % 12
        doy == (153 * mp + 2) \div 5 + d - 1
        doe == yoe * 365 + yoe \div 4 - yoe \div 100 + doy
    IN era * 146097 + doe - 719468

\* The calendar year of a timestamp (Series.dt.year).
YearOf(z) ==
    LET zz == z + 719468
        era == zz \div 146097
        doe == zz - era * 146097
        yoe == (doe - doe \div 1460 + doe \div 36524 - doe \div 146096) \div 365
        doy == doe - (365 * yoe + yoe \div 4 - yoe \div 100)
        mp == (5 * doy + 2) \div 153
        m == IF mp < 10 THEN mp + 3 ELSE mp - 9
    IN yoe + era * 400 + (IF m <= 2 THEN 1 ELSE 0)

\* pd.to_datetime(text, errors='coerce'): the timestamp of a Date cell, NaT
\* when the text is no calendar date a Timestamp can hold.
ToDatetime(text) ==
    LET m == text[1]
        d == text[2]
        y == text[3]
    IN IF /\ 1 <= m /\ m <= 12
          /\ 1678 <= y /\ y <= 2261
          /\ 1 <= d /\ d <= DaysInMonth(m, y)
       THEN DaysFromCivil(y, m, d)
       ELSE NaT

\* df.dropna(subset=['Date']): the rows whose Date is not NaT.
\* Variant: nothing is dropped.
DropNaKeepAll(rows) == rows

DropNa(rows) == SelectSeq(rows, LAMBDA r : r["Date"] # NaT)

\* ----------------------------------------------------------------- energy
\* 10 ** (1.5 * Magnitude), in units of 10^6 and rounded to the nearest
\* integer, for the magnitudes the model draws.
EnergyTable ==
    (549 :> 172) @@ (550 :> 178) @@ (600 :> 1000) @@ (605 :> 1189) @@
    (615 :> 1679) @@ (899 :> 30549211) @@ (900 :> 31622777) @@
    (910 :> 44668359) @@ (949 :> 171790839) @@ (950 :> 177827941)

Energy(mag) == EnergyTable[mag]

\* Variant: element i is the sum of elements 1..i-1.
RECURSIVE CumSumExclusive(_)
CumSumExclusive(s) ==
    IF s = <<>> THEN <<>>
    ELSE LET n == Len(s)
             p == CumSumExclusive(SubSeq(s, 1, n - 1))
         IN IF n = 1 THEN <<0>> ELSE Append(p, p[n - 1] + s[n - 1])

\* Series.cumsum(): element i is the sum of elements 1..i.
RECURSIVE CumSum(_)
CumSum(s) ==
    IF s = <<>> THEN <<>>
    ELSE LET n == Len(s)
             p == CumSum(SubSeq(s, 1, n - 1))
         IN IF n = 1 THEN <<s[1]>> ELSE Append(p, p[n - 1] + s[n])

\* ------------------------------------------------------------- input rows
EventRow(date, lat, lon, mag, depth, source, type) ==
    [Date |-> date, Latitude |-> lat, Longitude |-> lon, Magnitude |-> mag,
     Depth |-> depth, Source |-> source, Type |-> type]

RawColumns ==
    {"Date", "Latitude", "Longitude", "Magnitude", "Depth", "Source", "Type"}

Tables(pool, n) == UNION {[1..k -> pool] : k \in 0..n}

\* Rows that differ in the Date text (two of them equal as timestamps can
\* be drawn twice, one is no calendar date, one is an empty cell) and in
\* the magnitude.
DatePool ==
    {EventRow(d, 38322, 142369, m, 3000, "US", "Earthquake") :
        d \in {<<3, 11, 2011>>, <<1, 2, 1965>>, <<2, 30, 2011>>, <<0, 0, 0>>},
        m \in {600, 910}}

\* Rows that differ in depth (both sides of 70 km and of 300 km) and in
\* magnitude (both sides of the first and of the last bin edge).
DepthPool ==
    {EventRow(<<3, 15, 2011>>, 38322, 142369, m, d, "US", "Earthquake") :
        d \in {6999, 7000, 30000, 30001},
        m \in {549, 550, 600, 949, 950}}

\* Rows on both sides of every bound of the aftershock window.
AftershockPool ==
    {EventRow(d, lat, lon, m, 3000, "US", "Earthquake") :
        d \in {<<3, 10, 2011>>, <<3, 11, 2011>>, <<3, 15, 2011>>, <<4, 10, 2011>>},
        lat \in {33321, 33322, 43322, 43323},
        lon \in {137368, 137369, 147369, 147370},
        m \in {600, 900, 910}}

SourceNames ==
    <<"US", "ISCGEM", "ISCGEMSUP", "GCMT", "CI", "NC", "AK", "OFFICIAL", "UW", "NN">>

\* The sequences of length n over 1..n in which every number first occurs
\* after all smaller ones: one table for each way of sharing n rows among
\* sources.  Sources are only compared for equality, so the names are
\* immaterial.
RECURSIVE Growth(_)
Growth(n) ==
    IF n = 0 THEN {<<>>}
    ELSE UNION {{Append(g, k) : k \in 1..(Cardinality(Range(g)) + 1)} :
                  g \in Growth(n - 1)}

\* Tables whose rows differ in the source and fall on consecutive days,
\* in file order or in the reverse of it.
SourceTables ==
    UNION {{[i \in 1..n |->
               EventRow(<<1, IF asc THEN i ELSE n + 1 - i, 1975>>, 38322, 142369,
                        600, 3000, SourceNames[g[i]], "Earthquake")] :
              g \in Growth(n), asc \in BOOLEAN} : n \in 0..MaxRowsSources}

\* Rows for the runs that reorder the stages: dates that tie and dates out
\* of order, two depth categories, two sources, both event types.
AnyOrderPool ==
    {EventRow(<<3, 15, 2011>>, 38322, 142369, 600, 3000, "US", "Earthquake"),
     EventRow(<<3, 15, 2011>>, 38322, 142369, 605, 35000, "ISCGEM", "Nuclear Explosion"),
     EventRow(<<1, 5, 1975>>, 49800, 78500, 910, 3000, "US", "Nuclear Explosion"),
     EventRow(<<2, 30, 2011>>, 38322, 142369, 615, 10000, "ISCGEM", "Earthquake")}

\* ------------------------------------------------------------------- Init
EmptyFrame == [columns |-> {}, rows |-> <<>>]

InitWith(tables) ==
    /\ sourceAvailable \in BOOLEAN
    /\ raw \in tables
    /\ pc = "request"
    /\ df = EmptyFrame
    /\ figs = <<>>
    /\ plots = <<>>
    /\ done = {}
    /\ result = <<>>
    /\ response = [kind |-> "none"]

Init == InitWith(Tables(DatePool, MaxRows))

InitDepth == InitWith(Tables(DepthPool, MaxRowsDepth))

InitAftershock == InitWith(Tables(AftershockPool, MaxRowsAfter))

InitSources == InitWith(SourceTables)

InitAnyOrder == InitWith(Tables(AnyOrderPool, MaxRowsAny) \ {<<>>})

\* ------------------------------------------------------------- scheduling
CodeOrder ==
    <<"plot1", "plot2", "plot3", "plot4", "plot5", "plot7", "plot8", "map10">>

Stages == Range(CodeOrder)

Before(k) == {CodeOrder[i] : i \in {j \in 1..Len(CodeOrder) :
                \E n \in 1..Len(CodeOrder) : CodeOrder[n] = k /\ j < n}}

\* The stage's turn in the order the code is written in.
Ready(k) == pc = "stages" /\ done = Before(k)

SaveAt ==
    [plot1 |-> "save_plot1", plot2 |-> "save_plot2", plot3 |-> "save_plot3",
     plot4 |-> "save_plot4", plot5 |-> "save_plot5", plot7 |-> "save_plot7",
     plot8 |-> "save_plot8"]

\* plt.figure(...) followed by the plotting calls: a new current figure
\* that shows `view`.
OpenFigure(fs, view) == Append(fs, view)

\* Variant: the figure is left open.
CloseKeepsFigure(fs) == fs

\* plt.close(): closes the current figure.
CloseFigure(fs) == SubSeq(fs, 1, Len(fs) - 1)

\* --------------------------------------------------------------- requests
\* dashboard() calls generate_plots().
Dashboard ==
    /\ pc = "request"
    /\ pc' = "read_csv"
    /\ UNCHANGED <<sourceAvailable, raw, df, figs, plots, done, result, response>>

ErrorMessage ==
    "The 'earthquakes.csv' file was not found. Please make sure it's in the same directory as app.py."

\* Variant: the failure is swallowed and the pipeline goes on.
ReadFailureContinues == [pc |-> "prepare", result |-> <<>>]

\* What generate_plots does when read_csv raises FileNotFoundError: it
\* returns the error dict at once.
ReadFailure == [pc |-> "returned", result |-> [error |-> ErrorMessage]]

ReadCsvNotFound ==
    /\ pc = "read_csv"
    /\ ~sourceAvailable
    /\ pc' = ReadFailure.pc
    /\ result' = ReadFailure.result
    /\ UNCHANGED <<sourceAvailable, raw, df, figs, plots, done, response>>

\* pd.read_csv: the frame of the file's rows, labelled 1, 2, ... in file order.
ReadFrame(file) ==
    [columns |-> RawColumns,
     rows |-> [i \in 1..Len(file) |-> file[i] @@ ("idx" :> i)]]

ReadCsv ==
    /\ pc = "read_csv"
    /\ sourceAvailable
    /\ df' = ReadFrame(raw)
    /\ pc' = "prepare"
    /\ UNCHANGED <<sourceAvailable, raw, figs, plots, done, result, response>>

\* Lines 20-26: Date parsed, NaT rows dropped, Year, Decade and Hour added.
\* The Date text has no time of day, so the hour of every timestamp is 0.
Prepared(t) ==
    LET n == Len(t.rows)
        parsed == WithColumn(t, "Date",
                      [i \in 1..n |-> ToDatetime(t.rows[i]["Date"])])
        kept == [parsed EXCEPT !.rows = DropNa(parsed.rows)]
        k == Len(kept.rows)
        year == WithColumn(kept, "Year",
                      [i \in 1..k |-> YearOf(kept.rows[i]["Date"])])
        decade == WithColumn(year, "Decade",
                      [i \in 1..k |-> (year.rows[i]["Year"] \div 10) * 10])
    IN WithColumn(decade, "Hour", [i \in 1..k |-> 0])

DataPreparation ==
    /\ pc = "prepare"
    /\ df' = Prepared(df)
    /\ plots' = <<>>
    /\ pc' = "stages"
    /\ UNCHANGED <<sourceAvailable, raw, figs, done, result, response>>

\* ---------------------------------------------------------------- plot 1
\* df['Decade'].value_counts().sort_index(): (decade, count) by decade.
DecadeCounts(rows) ==
    LET ds == SortedSeq(Range(Column(rows, "Decade")))
    IN [i \in 1..Len(ds) |->
          [Decade |-> ds[i],
           Count |-> Cardinality({j \in 1..Len(rows) :
                                     rows[j]["Decade"] = ds[i]})]]

Plot1Stage ==
    /\ figs' = OpenFigure(figs, DecadeCounts(df.rows))
    /\ pc' = SaveAt["plot1"]
    /\ UNCHANGED <<sourceAvailable, raw, df, plots, done, result, response>>

Plot1 == Ready("plot1") /\ Plot1Stage

\* save_plot_to_base64(): the current figure is encoded and closed, and
\* the caller stores the encoding under its key.
SavePlotToBase64 ==
    \E k \in DOMAIN SaveAt :
        /\ pc = SaveAt[k]
        /\ plots' = plots @@ (k :> Last(figs))
        /\ figs' = CloseFigure(figs)
        /\ done' = done \cup {k}
        /\ pc' = "stages"
        /\ UNCHANGED <<sourceAvailable, raw, df, result, response>>

\* ---------------------------------------------------------------- plot 2
\* Variant: the rows are left as they are.
SortValuesUnsorted(rows, c) == {rows}

\* DataFrame.sort_values(c) with the default kind='quicksort', which is not
\* a stable sort: the orders it can leave the rows in are the arrangements
\* that ascend in c, rows equal in c in any relative order.
RECURSIVE SortValues(_, _)
SortValues(rows, c) ==
    IF rows = <<>> THEN {<<>>}
    ELSE LET firsts == {i \in 1..Len(rows) :
                          \A j \in 1..Len(rows) : rows[i][c] <= rows[j][c]}
             Without(i) == [j \in 1..(Len(rows) - 1) |->
                              IF j < i THEN rows[j] ELSE rows[j + 1]]
         IN UNION {{<<rows[i]>> \o rest : rest \in SortValues(Without(i), c)} :
                     i \in firsts}

\* Lines 40-42: the frame with Energy, sorted by Date, with Cumulative Energy.
CumulativeFrames(t) ==
    LET e == WithColumn(t, "Energy",
                 [i \in 1..Len(t.rows) |-> Energy(t.rows[i]["Magnitude"])])
    IN {WithColumn([e EXCEPT !.rows = sorted], "Cumulative Energy",
                   CumSum(Column(sorted, "Energy"))) :
          sorted \in SortValues(e.rows, "Date")}

\* plt.plot(df['Date'], df['Cumulative Energy']).  The four annotations of
\* lines 43 and 50-52 are drawn on the same figure from a sorted copy and
\* change neither df nor the series.
CumulativeSeries(rows) ==
    [i \in 1..Len(rows) |->
       [idx |-> rows[i]["idx"], Date |-> rows[i]["Date"],
        Cumulative |-> rows[i]["Cumulative Energy"]]]

Plot2Stage ==
    /\ \E t \in CumulativeFrames(df) :
         /\ df' = t
         /\ figs' = OpenFigure(figs, CumulativeSeries(t.rows))
    /\ pc' = SaveAt["plot2"]
    /\ UNCHANGED <<sourceAvailable, raw, plots, done, result, response>>

Plot2 == Ready("plot2") /\ Plot2Stage

\* ---------------------------------------------------------------- plot 3
\* Variant: 70 and 300 fall outside Intermediate.
assign_depth_category_open(depth) ==
    IF depth < ShallowBelow THEN "Shallow"
    ELSE IF ShallowBelow < depth /\ depth < IntermediateUpTo THEN "Intermediate"
    ELSE "Deep"

assign_depth_category(depth) ==
    IF depth < ShallowBelow THEN "Shallow"
    ELSE IF ShallowBelow <= depth /\ depth <= IntermediateUpTo THEN "Intermediate"
    ELSE "Deep"

DepthFrame(t) ==
    WithColumn(t, "Depth Category",
        [i \in 1..Len(t.rows) |-> assign_depth_category(t.rows[i]["Depth"])])

\* sns.boxplot(x='Depth Category', y='Magnitude', data=df, ...).
DepthSeries(rows) ==
    [i \in 1..Len(rows) |->
       [idx |-> rows[i]["idx"], Category |-> rows[i]["Depth Category"],
        Magnitude |-> rows[i]["Magnitude"]]]

Plot3Stage ==
    /\ df' = DepthFrame(df)
    /\ figs' = OpenFigure(figs, DepthSeries(DepthFrame(df).rows))
    /\ pc' = SaveAt["plot3"]
    /\ UNCHANGED <<sourceAvailable, raw, plots, done, result, response>>

Plot3 == Ready("plot3") /\ Plot3Stage

\* ---------------------------------------------------------------- plot 4
\* Series.round(1): to the nearest tenth, a half to the even tenth.
Round1(mag) ==
    LET q == mag \div 10
        r == mag % 10
    IN IF r < 5 THEN q * 10
       ELSE IF r > 5 THEN (q + 1) * 10
       ELSE IF q % 2 = 0 THEN q * 10 ELSE (q + 1) * 10

\* df['Magnitude'].round(1).value_counts().sort_index().
MagCounts(rows) ==
    LET ms == SortedSeq({Round1(rows[i]["Magnitude"]) : i \in 1..Len(rows)})
    IN [i \in 1..Len(ms) |->
          [Magnitude |-> ms[i],
           Count |-> Cardinality({j \in 1..Len(rows) :
                                    Round1(rows[j]["Magnitude"]) = ms[i]})]]

Plot4Stage ==
    /\ figs' = OpenFigure(figs, MagCounts(df.rows))
    /\ pc' = SaveAt["plot4"]
    /\ UNCHANGED <<sourceAvailable, raw, df, plots, done, result, response>>

Plot4 == Ready("plot4") /\ Plot4Stage

\* ---------------------------------------------------------------- plot 5
\* pd.to_datetime('2011-03-11').
MainshockDate == DaysFromCivil(2011, 3, 11)

\* Variant: no bound on the magnitude.
IsAftershockAnyMagnitude(r) ==
    /\ r["Date"] >= MainshockDate
    /\ r["Date"] < MainshockDate + AftershockDays
    /\ r["Latitude"] >= LatMin /\ r["Latitude"] <= LatMax
    /\ r["Longitude"] >= LonMin /\ r["Longitude"] <= LonMax

\* The mask of lines 83-87.
IsAftershock(r) ==
    /\ r["Date"] >= MainshockDate
    /\ r["Date"] < MainshockDate + AftershockDays
    /\ r["Latitude"] >= LatMin /\ r["Latitude"] <= LatMax
    /\ r["Longitude"] >= LonMin /\ r["Longitude"] <= LonMax
    /\ r["Magnitude"] < MagBelow

Aftershocks(rows) == SelectSeq(rows, IsAftershock)

\* plt.scatter(aftershocks['Date'], aftershocks['Magnitude'], ...).
AftershockSeries(rows) ==
    [i \in 1..Len(rows) |->
       [idx |-> rows[i]["idx"], Date |-> rows[i]["Date"],
        Magnitude |-> rows[i]["Magnitude"]]]

\* Variant: the mask is applied to df itself.
Plot5StageInPlace ==
    /\ df' = [df EXCEPT !.rows = Aftershocks(df.rows)]
    /\ figs' = OpenFigure(figs, AftershockSeries(Aftershocks(df.rows)))
    /\ pc' = SaveAt["plot5"]
    /\ UNCHANGED <<sourceAvailable, raw, plots, done, result, response>>

Plot5Stage ==
    /\ figs' = OpenFigure(figs, AftershockSeries(Aftershocks(df.rows)))
    /\ pc' = SaveAt["plot5"]
    /\ UNCHANGED <<sourceAvailable, raw, df, plots, done, result, response>>

Plot5 == Ready("plot5") /\ Plot5Stage

\* ---------------------------------------------------------------- plot 7
magnitude_bins == <<550, 600, 650, 700, 750, 800, 850, 950>>

magnitude_labels ==
    <<"5.5 - 6.0", "6.0 - 6.5", "6.5 - 7.0", "7.0 - 7.5", "7.5 - 8.0",
      "8.0 - 8.5", "8.5 - 9.5">>

NoBin == "NaN"

\* pd.cut(mag, bins=magnitude_bins, labels=magnitude_labels, right=False).
Cut(mag) ==
    LET hit == {i \in 1..Len(magnitude_labels) :
                  magnitude_bins[i] <= mag /\ mag < magnitude_bins[i + 1]}
    IN IF hit = {} THEN NoBin ELSE magnitude_labels[CHOOSE i \in hit : TRUE]

BinFrame(t) ==
    WithColumn(t, "Magnitude Bin",
        [i \in 1..Len(t.rows) |-> Cut(t.rows[i]["Magnitude"])])

\* The sort order of the group keys: the category strings ascending.
CategoryOrder == <<"Deep", "Intermediate", "Shallow">>

\* df.groupby(['Depth Category', 'Magnitude Bin']).size().reset_index(
\* name='Count'): one row for each depth category present and each of the
\* seven bins (the bin column is categorical), rows without a bin left out.
GroupBySize(rows) ==
    LET cats == SelectSeq(CategoryOrder,
                    LAMBDA c : \E i \in 1..Len(rows) : rows[i]["Depth Category"] = c)
        nb == Len(magnitude_labels)
    IN [n \in 1..(Len(cats) * nb) |->
          LET c == cats[((n - 1) \div nb) + 1]
              b == magnitude_labels[((n - 1) % nb) + 1]
          IN [Category |-> c, Bin |-> b,
              Count |-> Cardinality({i \in 1..Len(rows) :
                           /\ rows[i]["Depth Category"] = c
                           /\ rows[i]["Magnitude Bin"] = b})]]

\* Variant: no group is dropped.
PositiveCountsAll(groups) == groups

\* bubble_data[bubble_data['Count'] > 0].
PositiveCounts(groups) == SelectSeq(groups, LAMBDA g : g.Count > 0)

BubbleData(rows) == PositiveCounts(GroupBySize(rows))

\* Line 103 looks the column 'Depth Category' up and raises KeyError when
\* the frame has none; no figure is open at that point.
Plot7Stage ==
    /\ df' = BinFrame(df)
    /\ IF "Depth Category" \in df.columns
       THEN /\ figs' = OpenFigure(figs, BubbleData(BinFrame(df).rows))
            /\ pc' = SaveAt["plot7"]
       ELSE /\ figs' = figs
            /\ pc' = "KeyError"
    /\ UNCHANGED <<sourceAvailable, raw, plots, done, result, response>>

Plot7 == Ready("plot7") /\ Plot7Stage

\* ---------------------------------------------------------------- plot 8
SourceCount(rows, s) == Cardinality({i \in 1..Len(rows) : rows[i]["Source"] = s})

\* df['Source'].value_counts(): the sources by descending count.  The sort
\* behind it is the default quicksort, so sources of equal count come in any
\* relative order.  The result is the set of index orders it can give, cut
\* to the first n entries (.head(n)).
RECURSIVE RankHead(_, _, _)
RankHead(rows, S, n) ==
    IF S = {} \/ n = 0 THEN {<<>>}
    ELSE LET top == {s \in S : \A u \in S :
                        SourceCount(rows, s) >= SourceCount(rows, u)}
         IN UNION {{<<s>> \o rest : rest \in RankHead(rows, S \ {s}, n - 1)} :
                     s \in top}

\* Variant: the ranking is not cut.
ValueCountsHeadAll(rows, n) ==
    RankHead(rows, Range(Column(rows, "Source")), Len(rows))

ValueCountsHead(rows, n) == RankHead(rows, Range(Column(rows, "Source")), n)

\* df[df['Source'].isin(top_sources)].
IsIn(rows, top_sources) ==
    SelectSeq(rows, LAMBDA r : r["Source"] \in Range(top_sources))

\* The x axis of sns.violinplot(x='Source', ...) without order=: the
\* sources in the order they first appear in the data.
RECURSIVE SourceOrder(_)
SourceOrder(rows) ==
    IF rows = <<>> THEN <<>>
    ELSE LET init == SourceOrder(SubSeq(rows, 1, Len(rows) - 1))
             s == rows[Len(rows)]["Source"]
         IN IF s \in Range(init) THEN init ELSE Append(init, s)

TopSourceView(rows) ==
    [order |-> SourceOrder(rows),
     rows |-> [i \in 1..Len(rows) |->
                 [idx |-> rows[i]["idx"], Source |-> rows[i]["Source"],
                  Magnitude |-> rows[i]["Magnitude"]]]]

Plot8Stage ==
    /\ \E top_sources \in ValueCountsHead(df.rows, TopN) :
         figs' = OpenFigure(figs, TopSourceView(IsIn(df.rows, top_sources)))
    /\ pc' = SaveAt["plot8"]
    /\ UNCHANGED <<sourceAvailable, raw, df, plots, done, result, response>>

Plot8 == Ready("plot8") /\ Plot8Stage

\* ---------------------------------------------------------------- map 10
\* df[df['Type'] == 'Nuclear Explosion'], one marker for each row.
NuclearMarkers(rows) ==
    LET n == SelectSeq(rows, LAMBDA r : r["Type"] = "Nuclear Explosion")
    IN [i \in 1..Len(n) |->
          [idx |-> n[i]["idx"], Latitude |-> n[i]["Latitude"],
           Longitude |-> n[i]["Longitude"], Magnitude |-> n[i]["Magnitude"],
           Date |-> n[i]["Date"]]]

Map10Stage ==
    /\ plots' = plots @@ ("map10" :> NuclearMarkers(df.rows))
    /\ done' = done \cup {"map10"}
    /\ pc' = "stages"
    /\ UNCHANGED <<sourceAvailable, raw, df, figs, result, response>>

Map10 == Ready("map10") /\ Map10Stage

\* ----------------------------------------------------------------- return
\* Line 140: return plots.
Return ==
    /\ pc = "stages"
    /\ done = Stages
    /\ result' = plots
    /\ pc' = "returned"
    /\ UNCHANGED <<sourceAvailable, raw, df, figs, plots, done, response>>

\* Lines 155-158 of dashboard().
Respond ==
    /\ pc = "returned"
    /\ response' =
         IF "error" \in DOMAIN result
         THEN [kind |-> "message",
               body |-> <<"<p style='font-family: sans-serif; color: red;'>Error: ",
                          result["error"], "</p>">>]
         ELSE [kind |-> "index.html", plots |-> result]
    /\ pc' = "responded"
    /\ UNCHANGED <<sourceAvailable, raw, df, figs, plots, done, result>>

Next ==
    \/ Dashboard
    \/ ReadCsvNotFound
    \/ ReadCsv
    \/ DataPreparation
    \/ Plot1
    \/ Plot2
    \/ Plot3
    \/ Plot4
    \/ Plot5
    \/ Plot7
    \/ Plot8
    \/ Map10
    \/ SavePlotToBase64
    \/ Return
    \/ Respond

Spec == Init /\ [][Next]_vars

SpecDepth == InitDepth /\ [][Next]_vars

SpecAftershock == InitAftershock /\ [][Next]_vars

SpecSources == InitSources /\ [][Next]_vars

\* ------------------------------------------------- the stages in any order
\* The same stages, each run once, in an order chosen freely.
Free(k) == pc = "stages" /\ k \notin done

AnyPlot1 == Free("plot1") /\ Plot1Stage

AnyPlot2 == Free("plot2") /\ Plot2Stage

AnyPlot3 == Free("plot3") /\ Plot3Stage

AnyPlot4 == Free("plot4") /\ Plot4Stage

AnyPlot5 == Free("plot5") /\ Plot5Stage

AnyPlot7 == Free("plot7") /\ Plot7Stage

AnyPlot8 == Free("plot8") /\ Plot8Stage

AnyMap10 == Free("map10") /\ Map10Stage

NextAnyOrder ==
    \/ Dashboard
    \/ ReadCsvNotFound
    \/ ReadCsv
    \/ DataPreparation
    \/ AnyPlot1
    \/ AnyPlot2
    \/ AnyPlot3
    \/ AnyPlot4
    \/ AnyPlot5
    \/ AnyPlot7
    \/ AnyPlot8
    \/ AnyMap10
    \/ SavePlotToBase64
    \/ Return
    \/ Respond

SpecAnyOrder == InitAnyOrder /\ [][NextAnyOrder]_vars

\* ================================================================= claims
\* The positions of the file's rows whose Date text parses.
ParsedIdx == {i \in 1..Len(raw) : ToDatetime(raw[i]["Date"]) # NaT}

IdxOf(rows) == {rows[i]["idx"] : i \in 1..Len(rows)}

Normalized == sourceAvailable /\ pc \notin {"request", "read_csv", "prepare"}

Min(a, b) == IF a <= b THEN a ELSE b

\* The energies of the parsed rows, in file order.
ParsedEnergies ==
    LET ok == SelectSeq(raw, LAMBDA r : ToDatetime(r["Date"]) # NaT)
    IN [i \in 1..Len(ok) |-> Energy(ok[i]["Magnitude"])]

\* The energies of the parsed rows dated d or earlier.
EnergiesUpTo(d) ==
    LET ok == SelectSeq(raw, LAMBDA r :
                  ToDatetime(r["Date"]) # NaT /\ ToDatetime(r["Date"]) <= d)
    IN [i \in 1..Len(ok) |-> Energy(ok[i]["Magnitude"])]

\* C1: when earthquakes.csv is missing, generate_plots returns only the
\* error message, no view is computed (no frame, no figure, no entry of
\* plots), and dashboard answers with the message instead of the page.
C1_SourceNotFound ==
    ~sourceAvailable =>
        /\ pc \in {"request", "read_csv", "returned", "responded"}
        /\ df = EmptyFrame
        /\ figs = <<>>
        /\ DOMAIN plots = {}
        /\ done = {}
        /\ pc \in {"returned", "responded"} =>
              /\ DOMAIN result = {"error"}
              /\ result["error"] = ErrorMessage
        /\ pc = "responded" =>
              /\ response.kind = "message"
              /\ response.body[2] = ErrorMessage

C1_Witness ==
    /\ ~sourceAvailable
    /\ pc = "responded"
    /\ response.kind = "message"
    /\ Len(raw) > 0

\* How many file rows a view draws on, for the views that count rows.
CountTotal(view) == SumSeq([n \in 1..Len(view) |-> view[n].Count])

ViewRowsParsed(k) ==
    CASE k \in {"plot1", "plot4"} -> CountTotal(plots[k]) = Cardinality(ParsedIdx)
      [] k = "plot7" -> CountTotal(plots[k]) <= Cardinality(ParsedIdx)
      [] k = "plot8" ->
            \A n \in 1..Len(plots[k].rows) : plots[k].rows[n].idx \in ParsedIdx
      [] OTHER -> \A n \in 1..Len(plots[k]) : plots[k][n].idx \in ParsedIdx

\* C2: normalization keeps exactly the rows whose Date parses, unchanged
\* but for the parsed Date: the normalized row count is at most the raw
\* row count, equal iff every Date parses, and every view is made of
\* kept rows only.
C2_Normalization ==
    Normalized =>
        /\ IdxOf(df.rows) = ParsedIdx
        /\ Len(df.rows) = Cardinality(ParsedIdx)
        /\ Len(df.rows) <= Len(raw)
        /\ (Len(df.rows) = Len(raw)) <=>
              (\A i \in 1..Len(raw) : ToDatetime(raw[i]["Date"]) # NaT)
        /\ \A i \in 1..Len(df.rows) :
              LET r == df.rows[i]
                  f == raw[r["idx"]]
              IN /\ r["Date"] = ToDatetime(f["Date"])
                 /\ \A c \in RawColumns \ {"Date"} : r[c] = f[c]
        /\ \A k \in DOMAIN plots : ViewRowsParsed(k)

C2_Witness ==
    /\ Normalized
    /\ pc = "responded"
    /\ 0 < Len(df.rows)
    /\ Len(df.rows) < Len(raw)

\* C3: once the cumulative energy is computed, the rows are in ascending
\* timestamp order, the value of row i is the sum of the energies of rows
\* 1..i, the values never decrease, the last one is the sum of the energies
\* of all normalized rows, and the view plot2 is that series.
C3_CumulativeEnergy ==
    "Cumulative Energy" \in df.columns =>
        LET rows == df.rows
            n == Len(rows)
            e == [i \in 1..n |-> Energy(rows[i]["Magnitude"])]
            cum == [i \in 1..n |-> rows[i]["Cumulative Energy"]]
        IN /\ \A i \in 1..(n - 1) : rows[i]["Date"] <= rows[i + 1]["Date"]
           /\ \A i \in 1..n : cum[i] = SumSeq(SubSeq(e, 1, i))
           /\ \A i \in 1..(n - 1) : cum[i] <= cum[i + 1]
           /\ n > 0 => cum[n] = SumSeq(ParsedEnergies)
           /\ "plot2" \in DOMAIN plots =>
                 plots["plot2"] =
                    [i \in 1..n |-> [idx |-> rows[i]["idx"],
                                     Date |-> rows[i]["Date"],
                                     Cumulative |-> cum[i]]]

C3_Witness ==
    /\ "plot2" \in DOMAIN plots
    /\ Len(df.rows) >= 2
    /\ \E i \in 1..Len(df.rows) : \E j \in 1..Len(df.rows) :
          /\ i < j
          /\ df.rows[i]["idx"] > df.rows[j]["idx"]
          /\ df.rows[i]["Date"] < df.rows[j]["Date"]
          /\ df.rows[i]["Magnitude"] # df.rows[j]["Magnitude"]

\* C4: every depth gets exactly one category: Shallow iff depth < 70,
\* Intermediate iff 70 <= depth <= 300, Deep iff depth > 300.
C4_DepthCategory ==
    "Depth Category" \in df.columns =>
        \A i \in 1..Len(df.rows) :
            LET d == df.rows[i]["Depth"]
                c == df.rows[i]["Depth Category"]
            IN /\ c \in {"Shallow", "Intermediate", "Deep"}
               /\ (c = "Shallow") <=> (d < 7000)
               /\ (c = "Intermediate") <=> (7000 <= d /\ d <= 30000)
               /\ (c = "Deep") <=> (d > 30000)

C4_Witness ==
    /\ "plot3" \in DOMAIN plots
    /\ \E i \in 1..Len(df.rows) :
          df.rows[i]["Depth"] = 30000 /\ df.rows[i]["Depth Category"] = "Intermediate"
    /\ \E i \in 1..Len(df.rows) :
          df.rows[i]["Depth"] = 30001 /\ df.rows[i]["Depth Category"] = "Deep"

\* Rows of depth category c whose magnitude lies in bin b, left edge
\* included and right edge excluded.
InBucket(c, b) ==
    {i \in 1..Len(df.rows) :
        /\ df.rows[i]["Depth Category"] = c
        /\ magnitude_bins[b] <= df.rows[i]["Magnitude"]
        /\ df.rows[i]["Magnitude"] < magnitude_bins[b + 1]}

\* C6: plot7 holds one triple (category, bin, count) for each pair some
\* event falls into, its count the number of those events; no triple has
\* count 0; an event whose magnitude is outside [5.5, 9.5) is counted
\* nowhere.
C6_BubbleCounts ==
    "plot7" \in DOMAIN plots =>
        LET v == plots["plot7"]
        IN /\ \A n \in 1..Len(v) :
                 /\ v[n].Count > 0
                 /\ v[n].Category \in {"Shallow", "Intermediate", "Deep"}
                 /\ v[n].Bin \in Range(magnitude_labels)
           /\ \A c \in {"Shallow", "Intermediate", "Deep"} :
              \A b \in 1..Len(magnitude_labels) :
                 LET hits == {n \in 1..Len(v) :
                                v[n].Category = c /\ v[n].Bin = magnitude_labels[b]}
                 IN IF InBucket(c, b) = {} THEN hits = {}
                    ELSE /\ Cardinality(hits) = 1
                         /\ \A n \in hits : v[n].Count = Cardinality(InBucket(c, b))
           /\ CountTotal(v) =
                 Cardinality({i \in 1..Len(df.rows) :
                                /\ 550 <= df.rows[i]["Magnitude"]
                                /\ df.rows[i]["Magnitude"] < 950})

C6_Witness ==
    /\ "plot7" \in DOMAIN plots
    /\ Len(plots["plot7"]) = 1
    /\ plots["plot7"][1].Bin = "6.0 - 6.5"
    /\ \E i \in 1..Len(df.rows) : df.rows[i]["Magnitude"] = 950
    /\ \E i \in 1..Len(df.rows) : df.rows[i]["Magnitude"] = 600

\* The window of the claim: 2011-03-11 <= timestamp < 2011-04-10, the
\* bounding box, magnitude < 9.0.
InBox(r) ==
    /\ 33322 <= r["Latitude"] /\ r["Latitude"] <= 43322
    /\ 137369 <= r["Longitude"] /\ r["Longitude"] <= 147369

InWindow(r) ==
    /\ DaysFromCivil(2011, 3, 11) <= r["Date"]
    /\ r["Date"] < DaysFromCivil(2011, 4, 10)
    /\ InBox(r)
    /\ r["Magnitude"] < 900

\* C7: plot5 contains an event iff it lies in the window; an in-box event
\* of 2011-03-15 is in it with magnitude 6.0 and not with magnitude 9.1.
C7_AftershockFilter ==
    "plot5" \in DOMAIN plots =>
        LET v == plots["plot5"]
            Shown(r) == \E n \in 1..Len(v) :
                          /\ v[n].idx = r["idx"]
                          /\ v[n].Date = r["Date"]
                          /\ v[n].Magnitude = r["Magnitude"]
        IN /\ \A i \in 1..Len(df.rows) : Shown(df.rows[i]) <=> InWindow(df.rows[i])
           /\ \A n \in 1..Len(v) : v[n].idx \in IdxOf(df.rows)
           /\ \A i \in 1..Len(df.rows) :
                 LET r == df.rows[i]
                 IN (r["Date"] = DaysFromCivil(2011, 3, 15) /\ InBox(r)) =>
                       /\ r["Magnitude"] = 600 => Shown(r)
                       /\ r["Magnitude"] = 910 => ~Shown(r)

C7_Witness ==
    /\ "plot5" \in DOMAIN plots
    /\ \E n \in 1..Len(plots["plot5"]) :
          /\ plots["plot5"][n].Date = DaysFromCivil(2011, 3, 15)
          /\ plots["plot5"][n].Magnitude = 600

\* C10: at most one figure is open at any point, a figure is open only
\* between a stage's plt.figure and its save_plot_to_base64, and none is
\* open once generate_plots has returned, with or without the file.
C10_FiguresScoped ==
    /\ Len(figs) <= 1
    /\ figs # <<>> => pc \in {SaveAt[k] : k \in DOMAIN SaveAt}
    /\ pc \in {"returned", "responded"} => figs = <<>>
    /\ ~sourceAvailable => figs = <<>>

C10_Witness ==
    /\ pc = "returned"
    /\ DOMAIN result = Stages
    /\ figs = <<>>
    /\ Len(df.rows) > 0

\* Rows tied on the timestamp that stand in file order.
TiesInFileOrder(rows) ==
    \A i \in 1..Len(rows) : \A j \in 1..Len(rows) :
        (i < j /\ rows[i]["Date"] = rows[j]["Date"]) =>
            rows[i]["idx"] < rows[j]["idx"]

\* C8 as stated: the sort by timestamp is stable, events with equal
\* timestamps keep their file order.
C8_StableSort ==
    "Cumulative Energy" \in df.columns => TiesInFileOrder(df.rows)

\* C8 as amended: the sort leaves the normalized rows in ascending
\* timestamp order and the cumulative value of the last event of each
\* timestamp is the sum of the energies of all events up to that
\* timestamp, whatever order the tied events are left in.
C8_SortedByTimestamp ==
    "Cumulative Energy" \in df.columns =>
        LET rows == df.rows
            n == Len(rows)
        IN /\ IdxOf(rows) = ParsedIdx
           /\ n = Cardinality(ParsedIdx)
           /\ \A i \in 1..(n - 1) : rows[i]["Date"] <= rows[i + 1]["Date"]
           /\ \A i \in 1..n :
                 (i = n \/ rows[i]["Date"] < rows[Min(i + 1, n)]["Date"]) =>
                    rows[i]["Cumulative Energy"] =
                       SumSeq(EnergiesUpTo(rows[i]["Date"]))

C8_Witness ==
    /\ "plot2" \in DOMAIN plots
    /\ ~TiesInFileOrder(df.rows)
    /\ \E i \in 1..(Len(df.rows) - 1) :
          /\ df.rows[i]["Date"] = df.rows[i + 1]["Date"]
          /\ df.rows[i]["Magnitude"] # df.rows[i + 1]["Magnitude"]
    /\ \E i \in 1..(Len(df.rows) - 1) : df.rows[i]["Date"] < df.rows[i + 1]["Date"]

\* The sources of the table, how often each occurs and where it first does.
SourcesOf(rows) == {rows[i]["Source"] : i \in 1..Len(rows)}

FirstPos(rows, s) ==
    CHOOSE i \in 1..Len(rows) :
        /\ rows[i]["Source"] = s
        /\ \A j \in 1..(i - 1) : rows[j]["Source"] # s

\* s ranks before u: it occurs more often, or as often and earlier.
RanksBefore(rows, s, u) ==
    \/ SourceCount(rows, s) > SourceCount(rows, u)
    \/ /\ SourceCount(rows, s) = SourceCount(rows, u)
       /\ FirstPos(rows, s) < FirstPos(rows, u)

\* C5 as stated: plot8 presents min(5, number of sources) sources, the
\* most frequent ones, by descending count, ties by first occurrence.
C5_RankedPresentation ==
    "plot8" \in DOMAIN plots =>
        LET o == plots["plot8"].order
            all == SourcesOf(df.rows)
        IN /\ Len(o) = Min(5, Cardinality(all))
           /\ Range(o) \subseteq all
           /\ \A i \in 1..Len(o) : \A j \in 1..Len(o) :
                 i < j => RanksBefore(df.rows, o[i], o[j])
           /\ \A s \in Range(o) : \A u \in all \ Range(o) :
                 RanksBefore(df.rows, s, u)

\* C5 as amended: plot8 holds exactly the events of min(5, number of
\* sources) sources, none of which occurs less often than a source left
\* out, in table order; the sources are presented in the order of their
\* first event in the table.
C5_TopSources ==
    "plot8" \in DOMAIN plots =>
        LET v == plots["plot8"]
            all == SourcesOf(df.rows)
            shown == {v.rows[n].Source : n \in 1..Len(v.rows)}
            kept == SelectSeq(df.rows, LAMBDA r : r["Source"] \in shown)
        IN /\ Cardinality(shown) = Min(5, Cardinality(all))
           /\ shown \subseteq all
           /\ \A s \in shown : \A u \in all \ shown :
                 SourceCount(df.rows, s) >= SourceCount(df.rows, u)
           /\ v.rows = [n \in 1..Len(kept) |->
                          [idx |-> kept[n]["idx"], Source |-> kept[n]["Source"],
                           Magnitude |-> kept[n]["Magnitude"]]]
           /\ Range(v.order) = shown
           /\ Len(v.order) = Cardinality(shown)
           /\ \A i \in 1..Len(v.order) : \A j \in 1..Len(v.order) :
                 i < j => FirstPos(df.rows, v.order[i]) < FirstPos(df.rows, v.order[j])

C5_Witness ==
    /\ "plot8" \in DOMAIN plots
    /\ Cardinality(SourcesOf(df.rows)) > 5
    /\ Len(plots["plot8"].order) = 5
    /\ \E i \in 1..4 :
          SourceCount(df.rows, plots["plot8"].order[i]) <
             SourceCount(df.rows, plots["plot8"].order[i + 1])
    /\ \E s \in SourcesOf(df.rows) \ Range(plots["plot8"].order) :
          \E u \in Range(plots["plot8"].order) :
             SourceCount(df.rows, s) = SourceCount(df.rows, u)

\* The normalized table, and the tables the cumulative energy stage can
\* leave behind when it runs on it.
NormalizedFrame == Prepared(ReadFrame(raw))

SortedFrames == CumulativeFrames(NormalizedFrame)

\* The views the stages yield in the order of the code: plot1 sees the
\* normalized table, every later stage the table sorted by plot2.
CodeViews(k) ==
    CASE k = "plot1" -> {DecadeCounts(NormalizedFrame.rows)}
      [] k = "plot2" -> {CumulativeSeries(t.rows) : t \in SortedFrames}
      [] k = "plot3" -> {DepthSeries(DepthFrame(t).rows) : t \in SortedFrames}
      [] k = "plot4" -> {MagCounts(t.rows) : t \in SortedFrames}
      [] k = "plot5" -> {AftershockSeries(Aftershocks(t.rows)) : t \in SortedFrames}
      [] k = "plot7" -> {BubbleData(BinFrame(DepthFrame(t)).rows) : t \in SortedFrames}
      [] k = "plot8" ->
            UNION {{TopSourceView(IsIn(t.rows, top)) :
                      top \in ValueCountsHead(t.rows, TopN)} : t \in SortedFrames}
      [] k = "map10" -> {NuclearMarkers(t.rows) : t \in SortedFrames}

\* The rows of a view, their order set aside.
RowsOf(k, view) ==
    IF k = "plot8" THEN Range(view.rows) ELSE Range(view)

SameUpToRowOrder(k) ==
    IF k \in {"plot3", "plot5", "plot8", "map10"}
    THEN \E w \in CodeViews(k) : RowsOf(k, w) = RowsOf(k, plots[k])
    ELSE plots[k] \in CodeViews(k)

====
